---- MODULE Spec2Model ----
(***************************************************************************)
(* Model of lib/express.js: the Express binding of the SMART-on-FHIR       *)
(* client.  The module exports a factory returning { getClient, authorize, *)
(* completeAuth, refreshAuth } over a per-request storage adapter that     *)
(* reads and writes request.session.                                       *)
(*                                                                         *)
(* JavaScript values are modelled as records [t, v, rev] so that values of *)
(* different JavaScript types can be compared:                             *)
(*   t = "undefined" | "string" | "object" | "function"                    *)
(***************************************************************************)
EXTENDS Integers, Sequences, FiniteSets, TLC

\* ------------------------------------------------------------------ bounds
\* Highest token revision a stored blob reaches through refreshes.
MaxRev == 1

\* Request objects that may be in flight at the same time.
AllReqs == {"r1", "r2"}

\* Sessions (one request.session object each).
AllSessions == {"sA", "sB"}

\* Identifiers OAuthCore issues for flows; each is also the key of its blob.
Ids == {"id1", "id2"}

\* ---------------------------------------------------------- JavaScript values
Undefined == [t |-> "undefined", v |-> "", rev |-> 0]
Str(s) == [t |-> "string", v |-> s, rev |-> 0]
\* An authorization state blob: the identifier it was issued for and the
\* revision of its tokens.
Blob(id, n) == [t |-> "object", v |-> id, rev |-> n]

Blobs == {Blob(id, n) : id \in Ids, n \in 0..MaxRev}
\* A function object, such as a method a session object inherits.
Function(name) == [t |-> "function", v |-> name, rev |-> 0]

\* JavaScript ToBoolean, as applied by `if (x)`, `a && b`, `a || b`, `c ? :`.
Truthy(x) == \/ x.t \in {"object", "function"}
             \/ x.t = "string" /\ x.v # ""

\* The reserved key of the indirection pointer (the literal at line 69).
SMART_KEY == "smartId"

Keys == {SMART_KEY} \cup Ids

\* A session object without own properties.
EmptySession == [k \in Keys |-> Undefined]

\* Property names every session object inherits from its prototype; line 40
\* calls one of them on request.session.  No own property has such a name.
InheritedKeys == {"hasOwnProperty"}

\* ------------------------------------------------------------- default storage
\* getStorage(request).get(key): Promise.resolve(request.session[key]).
\* The property read follows the prototype chain.
StorageGet(sess, key) ==
    IF key \in Keys /\ sess[key] # Undefined THEN sess[key]
    ELSE IF key \in InheritedKeys THEN Function(key)
    ELSE Undefined

\* getStorage(request).set(key, value): request.session[key] = value.
StorageSet(sess, key, value) == [sess EXCEPT ![key] = value]

\* getStorage(request).unset(key): the session after the call and the
\* boolean the promise resolves with.  hasOwnProperty sees own properties
\* only.
StorageUnset(sess, key) ==
    IF key \in Keys /\ sess[key] # Undefined
    THEN [session |-> [sess EXCEPT ![key] = Undefined], result |-> TRUE]
    ELSE [session |-> sess, result |-> FALSE]

\* The property name JavaScript derives from a value used as a key.
KeyOf(x) == IF x.t = "string" THEN x.v ELSE "[object Object]"

\* ------------------------------------------------------------------- clients
\* What getClient resolves with: null, or new Client(state).
NoClient == [isNull |-> TRUE, state |-> Undefined]
NewClient(state) == [isNull |-> FALSE, state |-> state]

\* ------------------------------------------------------------------ requests
QueryNames == {"launch", "iss", "fhirServiceUrl",
               "code", "state", "error", "error_description"}

\* The values a query parameter takes: absent, present but empty, present.
QueryValues(name) ==
    {Undefined, Str(""),
     Str(CASE name = "error" -> "access_denied"
           [] name = "error_description" -> "user cancelled"
           [] OTHER -> "v")}

EmptyQuery == [n \in QueryNames |-> Undefined]

\* Queries of a launch request (the parameters authorize reads).
LaunchQueries ==
    {[EmptyQuery EXCEPT !["launch"] = l, !["iss"] = i, !["fhirServiceUrl"] = f] :
        l \in QueryValues("launch"), i \in QueryValues("iss"),
        f \in QueryValues("fhirServiceUrl")}

\* Queries of a callback request (the parameters completeAuth reads).
CallbackQueries ==
    {[EmptyQuery EXCEPT !["code"] = c, !["state"] = s,
                        !["error"] = e, !["error_description"] = d] :
        c \in QueryValues("code"), s \in QueryValues("state"),
        e \in QueryValues("error"), d \in QueryValues("error_description")}

\* The callback of a granted authorization: code and state, no error.
GrantedQuery == [EmptyQuery EXCEPT !["code"] = Str("v"), !["state"] = Str("v")]

\* Request r1 carries every query; a request running beside it (a second tab
\* of the same browser) carries the empty launch query and the granted
\* callback query.
LaunchQueriesOf(r) == IF r = "r1" THEN LaunchQueries ELSE {EmptyQuery}
CallbackQueriesOf(r) == IF r = "r1" THEN CallbackQueries ELSE {GrantedQuery}

NoRequest == [handler |-> "none", sess |-> "sA", bound |-> TRUE, query |-> EmptyQuery]

\* A fresh response object: nothing written, not ended, not redirected.
FreshResponse == [statusCode |-> 0, contentType |-> "", body |-> << >>,
                  endCalls |-> 0, redirectCalls |-> 0, location |-> ""]

NoError == [httpCode |-> 0, message |-> ""]
NoLocals == [id |-> Undefined, state |-> Undefined, client |-> NoClient,
             error |-> NoError]
NoReturn == [status |-> "none", value |-> NoClient, reason |-> ""]
NoCalls == [authorize |-> 0, exchange |-> 0, refresh |-> 0]

\* The fixed message of refreshAuth (line 146).
LostSessionMessage == "No smart state found in session. Please re-authorize your app."

\* Where OAuthCore's authorize sends the browser.
AuthorizationEndpoint == "https://auth.example/authorize"

\* Configurations: { getStorage, ...options } with serverUrl optional.
Configs == {[serverUrl |-> u, redirectUri |-> "/app"] :
                u \in {Undefined, Str("https://fhir.example")}}

VARIABLES
    cfg,        \* the configuration closed over by the returned API
    session,    \* session[s][k]: own property k of session object s
    req,        \* req[r]: handler invoked on request r, its session and query
    pc,         \* pc[r]: where the handling of r stands
    local,      \* local[r]: awaited values of the running handler
    res,        \* res[r]: the response object of r
    nextCalls,  \* nextCalls[r]: how often next() was called for r
    ret,        \* ret[r]: the value or promise the handler returned
    calls,      \* calls[r]: delegated calls made while handling r
    adapter     \* the unset, get, unset calls a user of the adapter makes

vars == <<cfg, session, req, pc, local, res, nextCalls, ret, calls, adapter>>

\* The values stored in a session: pointers, transient flow state, blobs.
StoredValues ==
    {Undefined} \cup {Str(k) : k \in Keys} \cup {Str("pending-flow")}
                \cup {Blob(k, n) : k \in Keys, n \in 0..MaxRev}

\* Where the handling of a request stands: not yet invoked, suspended at an
\* await or at a delegated promise, or over.
Positions == {"idle", "done",
              "gc_await_id", "gc_await_state",
              "au_delegated",
              "ca_exchanging", "ca_storing_pointer", "ca_exchange_ok", "ca_exchange_err",
              "ra_await_client", "ra_refreshing", "ra_refresh_ok", "ra_refresh_err"}

\* No adapter call made yet.
NoAdapterCalls == [step |-> 0, sess |-> "sA", key |-> SMART_KEY,
                   before |-> EmptySession, first |-> FALSE,
                   got |-> Undefined, second |-> FALSE]

\* The shape of the state.
TypeOK ==
    /\ cfg \in Configs
    /\ adapter.step \in 0..3
    /\ adapter.sess \in AllSessions
    /\ adapter.key \in Keys \cup InheritedKeys
    /\ adapter.before \in [Keys -> StoredValues]
    /\ adapter.first \in BOOLEAN /\ adapter.second \in BOOLEAN
    /\ adapter.got \in StoredValues \cup {Function(k) : k \in InheritedKeys}
    /\ session \in [AllSessions -> [Keys -> StoredValues]]
    /\ \A r \in AllReqs :
        /\ req[r].handler \in {"none", "getClient", "authorize", "completeAuth", "refreshAuth"}
        /\ req[r].sess \in AllSessions
        /\ req[r].bound \in BOOLEAN
        /\ req[r].query \in LaunchQueries \cup CallbackQueries
        /\ pc[r] \in Positions
        /\ local[r].id \in StoredValues
        /\ local[r].state \in StoredValues
        /\ local[r].client \in {NoClient} \cup {NewClient(v) : v \in StoredValues}
        /\ local[r].error.httpCode \in {0, 401}
        /\ res[r].endCalls \in 0..1 /\ res[r].redirectCalls \in 0..1
        /\ res[r].statusCode \in {0, 302, 401, 500}
        /\ nextCalls[r] \in 0..1
        /\ ret[r].status \in {"none", "returned", "pending", "resolved", "rejected"}
        /\ calls[r].authorize \in 0..1
        /\ calls[r].exchange \in 0..1
        /\ calls[r].refresh \in 0..1

Init ==
    /\ cfg \in Configs
    /\ session = [s \in AllSessions |-> EmptySession]
    /\ req = [r \in AllReqs |-> NoRequest]
    /\ pc = [r \in AllReqs |-> "idle"]
    /\ local = [r \in AllReqs |-> NoLocals]
    /\ res = [r \in AllReqs |-> FreshResponse]
    /\ nextCalls = [r \in AllReqs |-> 0]
    /\ ret = [r \in AllReqs |-> NoReturn]
    /\ calls = [r \in AllReqs |-> NoCalls]
    /\ adapter = NoAdapterCalls

\* ------------------------------------------------------- response primitives
\* res.end(chunk)
ResEnd(response, chunk) ==
    [response EXCEPT !.body = @ \o chunk, !.endCalls = @ + 1]

\* res.writeHead(status, { 'Content-Type': type })
ResWriteHead(response, status, type) ==
    [response EXCEPT !.statusCode = status, !.contentType = type]

\* res.redirect(url)
ResRedirect(response, url) ==
    [response EXCEPT !.statusCode = 302, !.location = url,
                     !.redirectCalls = @ + 1, !.endCalls = @ + 1]

\* ----------------------------------------------------------------- getClient
\* The promise of an async function settles: resolved with a value.
Resolved(value) == [status |-> "resolved", value |-> value, reason |-> ""]
Rejected(reason) == [status |-> "rejected", value |-> NoClient, reason |-> reason]
Pending == [status |-> "pending", value |-> NoClient, reason |-> ""]
Returned == [status |-> "returned", value |-> NoClient, reason |-> ""]

\* Lines 68-69: storage = cfg.getStorage(request); storage.get("smartId") is
\* called (the default adapter reads the session at the call) and awaited.
GetClientLookupId(sess) == StorageGet(sess, SMART_KEY)

\* Mutant: the indirection flattened, the state read from the pointer's key.
GetClientLookupStateFlat(sess, id) == StorageGet(sess, SMART_KEY)

\* Lines 70-71: `if (id)` and the call storage.get(id), awaited.
GetClientLookupState(sess, id) == StorageGet(sess, KeyOf(id))

\* Mutant: the `if (state)` test dropped.
GetClientResultUnchecked(state) == NewClient(state)

\* Lines 72-76: `if (state) return new Client(state)`, else null.
GetClientResult(state) == IF Truthy(state) THEN NewClient(state) ELSE NoClient

\* getClient returns to its caller: the application (the promise resolves)
\* or refreshAuth, which awaits it at line 142.
GetClientReturn(r, client) ==
    IF req[r].handler = "refreshAuth"
    THEN /\ local' = [local EXCEPT ![r].client = client]
         /\ pc' = [pc EXCEPT ![r] = "ra_await_client"]
         /\ ret' = ret
    ELSE /\ local' = [local EXCEPT ![r].client = client]
         /\ pc' = [pc EXCEPT ![r] = "done"]
         /\ ret' = [ret EXCEPT ![r] = Resolved(client)]

\* Mutant: the adapter reads one session object shared by all requests in
\* place of request.session.
GetClientSharedSession(r, s) ==
    /\ pc[r] = "idle"
    /\ req' = [req EXCEPT ![r] = [NoRequest EXCEPT !.handler = "getClient", !.sess = s]]
    /\ local' = [local EXCEPT ![r].id = GetClientLookupId(session["sA"])]
    /\ pc' = [pc EXCEPT ![r] = "gc_await_id"]
    /\ ret' = [ret EXCEPT ![r] = Pending]
    /\ UNCHANGED <<cfg, adapter, session, res, nextCalls, calls>>

\* The application calls getClient(request) on a request of session s.
GetClient(r, s) ==
    /\ pc[r] = "idle"
    /\ req' = [req EXCEPT ![r] = [NoRequest EXCEPT !.handler = "getClient", !.sess = s]]
    /\ local' = [local EXCEPT ![r].id = GetClientLookupId(session[s])]
    /\ pc' = [pc EXCEPT ![r] = "gc_await_id"]
    /\ ret' = [ret EXCEPT ![r] = Pending]
    /\ UNCHANGED <<cfg, adapter, session, res, nextCalls, calls>>

\* `await storage.get("smartId")` resumes (lines 69-71, 76).
GetClientGotId(r) ==
    /\ pc[r] = "gc_await_id"
    /\ IF Truthy(local[r].id)
       THEN /\ local' = [local EXCEPT ![r].state =
                            GetClientLookupState(session[req[r].sess], local[r].id)]
            /\ pc' = [pc EXCEPT ![r] = "gc_await_state"]
            /\ ret' = ret
       ELSE GetClientReturn(r, NoClient)
    /\ UNCHANGED <<cfg, adapter, session, req, res, nextCalls, calls>>

\* Mutant: getClient consumes the pointer once it has read the state.
GetClientGotStateConsuming(r) ==
    /\ pc[r] = "gc_await_state"
    /\ GetClientReturn(r, GetClientResult(local[r].state))
    /\ session' = [session EXCEPT ![req[r].sess] = StorageUnset(@, SMART_KEY).session]
    /\ UNCHANGED <<cfg, adapter, req, res, nextCalls, calls>>

\* `await storage.get(id)` resumes (lines 71-76).
GetClientGotState(r) ==
    /\ pc[r] = "gc_await_state"
    /\ GetClientReturn(r, GetClientResult(local[r].state))
    /\ UNCHANGED <<cfg, adapter, session, req, res, nextCalls, calls>>

\* ----------------------------------------------------------------- authorize
\* Mutant: launch || iss in place of launch && iss.
AuthorizeConditionEither(query, config) ==
    \/ Truthy(query["launch"]) \/ Truthy(query["iss"])
    \/ Truthy(query["fhirServiceUrl"])
    \/ Truthy(config.serverUrl)

\* Line 91: (launch && iss) || fhirServiceUrl || cfg.serverUrl
AuthorizeCondition(query, config) ==
    \/ Truthy(query["launch"]) /\ Truthy(query["iss"])
    \/ Truthy(query["fhirServiceUrl"])
    \/ Truthy(config.serverUrl)

\* Mutant: the `return` of line 92 left out, so that next() runs after the
\* delegation.
AuthorizeFallingThrough(r, s) ==
    /\ pc[r] = "idle"
    /\ \E q \in LaunchQueriesOf(r) :
        /\ req' = [req EXCEPT ![r] = [NoRequest EXCEPT !.handler = "authorize",
                                                        !.sess = s, !.query = q]]
        /\ nextCalls' = [nextCalls EXCEPT ![r] = @ + 1]
        /\ IF AuthorizeCondition(q, cfg)
           THEN /\ calls' = [calls EXCEPT ![r].authorize = @ + 1]
                /\ pc' = [pc EXCEPT ![r] = "au_delegated"]
                /\ ret' = [ret EXCEPT ![r] = Pending]
           ELSE /\ pc' = [pc EXCEPT ![r] = "done"]
                /\ ret' = [ret EXCEPT ![r] = Returned]
                /\ calls' = calls
    /\ UNCHANGED <<cfg, adapter, session, local, res>>

\* Lines 89-95.
Authorize(r, s) ==
    /\ pc[r] = "idle"
    /\ \E q \in LaunchQueriesOf(r) :
        /\ req' = [req EXCEPT ![r] = [NoRequest EXCEPT !.handler = "authorize",
                                                        !.sess = s, !.query = q]]
        /\ IF AuthorizeCondition(q, cfg)
           THEN \* return smart.authorize(req, res, cfg, cfg.getStorage(req))
                /\ calls' = [calls EXCEPT ![r].authorize = @ + 1]
                /\ pc' = [pc EXCEPT ![r] = "au_delegated"]
                /\ ret' = [ret EXCEPT ![r] = Pending]
                /\ nextCalls' = nextCalls
           ELSE \* next()
                /\ nextCalls' = [nextCalls EXCEPT ![r] = @ + 1]
                /\ pc' = [pc EXCEPT ![r] = "done"]
                /\ ret' = [ret EXCEPT ![r] = Returned]
                /\ calls' = calls
    /\ UNCHANGED <<cfg, adapter, session, local, res>>

\* The transient flow state OAuthCore's authorize may store.
TransientState == Str("pending-flow")

\* An identifier never issued before in session s.
FreshId(s, f) == /\ session[s][f] = Undefined
                 /\ session[s][SMART_KEY] # Str(f)

\* Mutant: authorize already points the session at the flow it starts.
OAuthAuthorizeStoringPointer(r) ==
    /\ pc[r] = "au_delegated"
    /\ \E f \in Ids :
        /\ FreshId(req[r].sess, f)
        /\ session' = [session EXCEPT ![req[r].sess] =
                          StorageSet(StorageSet(@, f, TransientState), SMART_KEY, Str(f))]
    /\ res' = [res EXCEPT ![r] = ResRedirect(@, AuthorizationEndpoint)]
    /\ ret' = [ret EXCEPT ![r] = Resolved(NoClient)]
    /\ pc' = [pc EXCEPT ![r] = "done"]
    /\ UNCHANGED <<cfg, adapter, req, local, nextCalls, calls>>

\* OAuthCore's authorize writes the transient state of a new flow, then
\* redirects to the authorization endpoint.
OAuthAuthorizeStoring(r) ==
    /\ pc[r] = "au_delegated"
    /\ \E f \in Ids :
        /\ FreshId(req[r].sess, f)
        /\ session' = [session EXCEPT ![req[r].sess] = StorageSet(@, f, TransientState)]
    /\ res' = [res EXCEPT ![r] = ResRedirect(@, AuthorizationEndpoint)]
    /\ ret' = [ret EXCEPT ![r] = Resolved(NoClient)]
    /\ pc' = [pc EXCEPT ![r] = "done"]
    /\ UNCHANGED <<cfg, adapter, req, local, nextCalls, calls>>

\* OAuthCore's authorize redirects without storing anything.
OAuthAuthorizeRedirect(r) ==
    /\ pc[r] = "au_delegated"
    /\ res' = [res EXCEPT ![r] = ResRedirect(@, AuthorizationEndpoint)]
    /\ ret' = [ret EXCEPT ![r] = Resolved(NoClient)]
    /\ pc' = [pc EXCEPT ![r] = "done"]
    /\ UNCHANGED <<cfg, adapter, session, req, local, nextCalls, calls>>

\* -------------------------------------------------------------- completeAuth
\* Mutant: the description left out of the message.
ErrorMessageBare(error, description) == <<error.v>>

\* Line 112: error + (error_description ? ":\n" + error_description : ""),
\* a string kept as the sequence of its parts.
ErrorMessage(error, description) ==
    IF Truthy(description)
    THEN <<error.v, ":\n", description.v>>
    ELSE <<error.v>>

\* Mutant: code || state in place of code && state.
ExchangeConditionEither(query) == Truthy(query["code"]) \/ Truthy(query["state"])

\* Line 116: code && state
ExchangeCondition(query) == Truthy(query["code"]) /\ Truthy(query["state"])

\* Line 122: error.httpCode || 500 (httpCode 0 stands for a missing one).
FailureStatus(error) == IF error.httpCode # 0 THEN error.httpCode ELSE 500

\* Lines 109-117 and 129: the synchronous part of completeAuth.
CompleteAuth(r, s) ==
    /\ pc[r] = "idle"
    /\ \E q \in CallbackQueriesOf(r) :
        /\ req' = [req EXCEPT ![r] = [NoRequest EXCEPT !.handler = "completeAuth",
                                                        !.sess = s, !.query = q]]
        /\ IF Truthy(q["error"])
           THEN \* return res.end(msg)
                /\ res' = [res EXCEPT ![r] =
                             ResEnd(@, ErrorMessage(q["error"], q["error_description"]))]
                /\ pc' = [pc EXCEPT ![r] = "done"]
                /\ ret' = [ret EXCEPT ![r] = Returned]
                /\ UNCHANGED <<nextCalls, calls>>
           ELSE IF ExchangeCondition(q)
           THEN \* return smart.completeAuth(req, cfg.getStorage(req)).then(...)
                /\ calls' = [calls EXCEPT ![r].exchange = @ + 1]
                /\ pc' = [pc EXCEPT ![r] = "ca_exchanging"]
                /\ ret' = [ret EXCEPT ![r] = Pending]
                /\ UNCHANGED <<nextCalls, res>>
           ELSE \* next()
                /\ nextCalls' = [nextCalls EXCEPT ![r] = @ + 1]
                /\ pc' = [pc EXCEPT ![r] = "done"]
                /\ ret' = [ret EXCEPT ![r] = Returned]
                /\ UNCHANGED <<calls, res>>
    /\ UNCHANGED <<cfg, adapter, session, local>>

\* OAuthCore's code exchange succeeded: it persists the blob of flow f ...
OAuthExchangeStoreBlob(r) ==
    /\ pc[r] = "ca_exchanging"
    /\ \E f \in Ids :
        /\ session' = [session EXCEPT ![req[r].sess] = StorageSet(@, f, Blob(f, 0))]
        /\ local' = [local EXCEPT ![r].id = Str(f)]
    /\ pc' = [pc EXCEPT ![r] = "ca_storing_pointer"]
    /\ UNCHANGED <<cfg, adapter, req, res, nextCalls, ret, calls>>

\* The same persisting step for a flow whose opaque identifier happens to be
\* the string "smartId".
OAuthExchangeStoreBlobReserved(r) ==
    /\ pc[r] = "ca_exchanging"
    /\ session' = [session EXCEPT ![req[r].sess] =
                      StorageSet(@, SMART_KEY, Blob(SMART_KEY, 0))]
    /\ local' = [local EXCEPT ![r].id = Str(SMART_KEY)]
    /\ pc' = [pc EXCEPT ![r] = "ca_storing_pointer"]
    /\ UNCHANGED <<cfg, adapter, req, res, nextCalls, ret, calls>>

\* Mutant: the pointer is written only while the session has none.
OAuthExchangeStorePointerOnce(r) ==
    /\ pc[r] = "ca_storing_pointer"
    /\ session' = [session EXCEPT ![req[r].sess] =
                      IF @[SMART_KEY] = Undefined
                      THEN StorageSet(@, SMART_KEY, local[r].id) ELSE @]
    /\ pc' = [pc EXCEPT ![r] = "ca_exchange_ok"]
    /\ UNCHANGED <<cfg, adapter, req, local, res, nextCalls, ret, calls>>

\* ... then the pointer to it, and its promise resolves.
OAuthExchangeStorePointer(r) ==
    /\ pc[r] = "ca_storing_pointer"
    /\ session' = [session EXCEPT ![req[r].sess] = StorageSet(@, SMART_KEY, local[r].id)]
    /\ pc' = [pc EXCEPT ![r] = "ca_exchange_ok"]
    /\ UNCHANGED <<cfg, adapter, req, local, res, nextCalls, ret, calls>>

\* The HTTP status codes a failed exchange carries (0: none).
ExchangeFailureCodes == {0, 401}

\* OAuthCore's code exchange failed: its promise rejects with an error.
OAuthExchangeReject(r) ==
    /\ pc[r] = "ca_exchanging"
    /\ \E c \in ExchangeFailureCodes :
        local' = [local EXCEPT ![r].error = [httpCode |-> c, message |-> "exchange failed"]]
    /\ pc' = [pc EXCEPT ![r] = "ca_exchange_err"]
    /\ UNCHANGED <<cfg, adapter, session, req, res, nextCalls, ret, calls>>

\* Mutant: the redirect goes to the configured server instead of redirectUri.
CompleteAuthOnResolveToServer(r) ==
    /\ pc[r] = "ca_exchange_ok"
    /\ res' = [res EXCEPT ![r] = ResRedirect(@, cfg.serverUrl.v)]
    /\ ret' = [ret EXCEPT ![r] = Resolved(NoClient)]
    /\ pc' = [pc EXCEPT ![r] = "done"]
    /\ UNCHANGED <<cfg, adapter, session, req, local, nextCalls, calls>>

\* Line 119: () => res.redirect(cfg.redirectUri)
CompleteAuthOnResolve(r) ==
    /\ pc[r] = "ca_exchange_ok"
    /\ res' = [res EXCEPT ![r] = ResRedirect(@, cfg.redirectUri)]
    /\ ret' = [ret EXCEPT ![r] = Resolved(NoClient)]
    /\ pc' = [pc EXCEPT ![r] = "done"]
    /\ UNCHANGED <<cfg, adapter, session, req, local, nextCalls, calls>>

\* Lines 120-126: res.writeHead(error.httpCode || 500, ...) runs; then
\* res.end(msg, "utf8") evaluates `msg`, which is declared by `let` inside the
\* block of lines 111-115 only and is not in scope here: a ReferenceError is
\* thrown before res.end is called, and the promise completeAuth returned
\* rejects with it.
CompleteAuthOnReject(r) ==
    /\ pc[r] = "ca_exchange_err"
    /\ res' = [res EXCEPT ![r] = ResWriteHead(@, FailureStatus(local[r].error), "text/plain")]
    /\ ret' = [ret EXCEPT ![r] = Rejected("ReferenceError")]
    /\ pc' = [pc EXCEPT ![r] = "done"]
    /\ UNCHANGED <<cfg, adapter, session, req, local, nextCalls, calls>>

\* --------------------------------------------------------------- refreshAuth
\* Line 142: `this.getClient(req)`.  The handler reaches getClient only when
\* it is invoked with the API object as receiver; invoked as a plain function
\* (the way Express invokes a mounted handler) `this.getClient` is not a
\* function and the async function rejects with a TypeError.
RefreshAuth(r, s) ==
    /\ pc[r] = "idle"
    /\ \E b \in BOOLEAN :
        /\ req' = [req EXCEPT ![r] = [NoRequest EXCEPT !.handler = "refreshAuth",
                                                        !.sess = s, !.bound = b]]
        /\ IF b
           THEN /\ local' = [local EXCEPT ![r].id = GetClientLookupId(session[s])]
                /\ pc' = [pc EXCEPT ![r] = "gc_await_id"]
                /\ ret' = [ret EXCEPT ![r] = Pending]
           ELSE /\ local' = local
                /\ pc' = [pc EXCEPT ![r] = "done"]
                /\ ret' = [ret EXCEPT ![r] = Rejected("TypeError")]
    /\ UNCHANGED <<cfg, adapter, session, res, nextCalls, calls>>

\* Mutant: the lost-session branch clears the pointer before answering.
RefreshAuthGotClientClearing(r) ==
    /\ pc[r] = "ra_await_client"
    /\ IF local[r].client.isNull
       THEN /\ res' = [res EXCEPT ![r] = ResEnd(@, <<LostSessionMessage>>)]
            /\ pc' = [pc EXCEPT ![r] = "done"]
            /\ calls' = calls
            /\ session' = [session EXCEPT ![req[r].sess] =
                              StorageUnset(@, SMART_KEY).session]
       ELSE /\ calls' = [calls EXCEPT ![r].refresh = @ + 1]
            /\ pc' = [pc EXCEPT ![r] = "ra_refreshing"]
            /\ res' = res
            /\ session' = session
    /\ ret' = [ret EXCEPT ![r] = Resolved(NoClient)]
    /\ UNCHANGED <<cfg, adapter, req, local, nextCalls>>

\* Lines 142-149: `await this.getClient(req)` resumes.
RefreshAuthGotClient(r) ==
    /\ pc[r] = "ra_await_client"
    /\ IF local[r].client.isNull
       THEN \* return res.end("No smart state found ...")
            /\ res' = [res EXCEPT ![r] = ResEnd(@, <<LostSessionMessage>>)]
            /\ pc' = [pc EXCEPT ![r] = "done"]
            /\ calls' = calls
       ELSE \* client.refresh().then(...); the async function then returns
            /\ calls' = [calls EXCEPT ![r].refresh = @ + 1]
            /\ pc' = [pc EXCEPT ![r] = "ra_refreshing"]
            /\ res' = res
    /\ ret' = [ret EXCEPT ![r] = Resolved(NoClient)]
    /\ UNCHANGED <<cfg, adapter, session, req, local, nextCalls>>

\* FhirClient's refresh succeeded: the blob is updated in place.
ClientRefreshResolve(r) ==
    /\ pc[r] = "ra_refreshing"
    /\ local[r].client.state \in Blobs
    /\ local[r].client.state.rev < MaxRev
    /\ session' = [session EXCEPT ![req[r].sess] =
                      StorageSet(@, local[r].client.state.v,
                                 Blob(local[r].client.state.v, local[r].client.state.rev + 1))]
    /\ pc' = [pc EXCEPT ![r] = "ra_refresh_ok"]
    /\ UNCHANGED <<cfg, adapter, req, local, res, nextCalls, ret, calls>>

\* FhirClient's refresh failed: its promise rejects with an error.
ClientRefreshReject(r) ==
    /\ pc[r] = "ra_refreshing"
    /\ local' = [local EXCEPT ![r].error = [httpCode |-> 0, message |-> "refresh failed"]]
    /\ pc' = [pc EXCEPT ![r] = "ra_refresh_err"]
    /\ UNCHANGED <<cfg, adapter, session, req, res, nextCalls, ret, calls>>

\* Line 149: () => next()
RefreshAuthOnResolve(r) ==
    /\ pc[r] = "ra_refresh_ok"
    /\ nextCalls' = [nextCalls EXCEPT ![r] = @ + 1]
    /\ pc' = [pc EXCEPT ![r] = "done"]
    /\ UNCHANGED <<cfg, adapter, session, req, local, res, ret, calls>>

\* Mutant: the rejection handler also passes the request on.
RefreshAuthOnRejectPassing(r) ==
    /\ pc[r] = "ra_refresh_err"
    /\ res' = [res EXCEPT ![r] = ResEnd(@, <<local[r].error.message>>)]
    /\ nextCalls' = [nextCalls EXCEPT ![r] = @ + 1]
    /\ pc' = [pc EXCEPT ![r] = "done"]
    /\ UNCHANGED <<cfg, adapter, session, req, local, ret, calls>>

\* Line 149: error => res.end(error.message)
RefreshAuthOnReject(r) ==
    /\ pc[r] = "ra_refresh_err"
    /\ res' = [res EXCEPT ![r] = ResEnd(@, <<local[r].error.message>>)]
    /\ nextCalls' = nextCalls
    /\ pc' = [pc EXCEPT ![r] = "done"]
    /\ UNCHANGED <<cfg, adapter, session, req, local, ret, calls>>

\* ------------------------------------------------------------ the environment
\* The application removes a key through the storage adapter (logout, or
\* state cleared out of band).
AppUnset(s) ==
    /\ \E k \in Keys :
        /\ StorageUnset(session[s], k).result
        /\ session' = [session EXCEPT ![s] = StorageUnset(@, k).session]
    /\ UNCHANGED <<cfg, adapter, req, pc, local, res, nextCalls, ret, calls>>

\* ------------------------------------------------- the adapter used directly
\* A user of the default adapter of session s calls unset(k), then get(k),
\* then unset(k) again, awaiting each promise.  unset(k), lines 39-45.
StorageUnsetCall(s, k) ==
    /\ adapter.step = 0
    /\ session' = [session EXCEPT ![s] = StorageUnset(@, k).session]
    /\ adapter' = [NoAdapterCalls EXCEPT !.step = 1, !.sess = s, !.key = k,
                                         !.before = session[s],
                                         !.first = StorageUnset(session[s], k).result]
    /\ UNCHANGED <<cfg, req, pc, local, res, nextCalls, ret, calls>>

\* get(k), lines 29-31.
StorageGetCall ==
    /\ adapter.step = 1
    /\ adapter' = [adapter EXCEPT !.step = 2,
                                  !.got = StorageGet(session[adapter.sess], adapter.key)]
    /\ UNCHANGED <<cfg, session, req, pc, local, res, nextCalls, ret, calls>>

\* The second unset(k), lines 39-45.
StorageUnsetAgain ==
    /\ adapter.step = 2
    /\ session' = [session EXCEPT ![adapter.sess] = StorageUnset(@, adapter.key).session]
    /\ adapter' = [adapter EXCEPT !.step = 3,
                                  !.second = StorageUnset(session[adapter.sess],
                                                          adapter.key).result]
    /\ UNCHANGED <<cfg, req, pc, local, res, nextCalls, ret, calls>>

\* The user of the adapter drops the results.
StorageCallsOver ==
    /\ adapter.step = 3
    /\ adapter' = NoAdapterCalls
    /\ UNCHANGED <<cfg, session, req, pc, local, res, nextCalls, ret, calls>>

\* The request is over; its objects are garbage and r stands for a new one.
Finish(r) ==
    /\ pc[r] = "done"
    /\ req' = [req EXCEPT ![r] = NoRequest]
    /\ pc' = [pc EXCEPT ![r] = "idle"]
    /\ local' = [local EXCEPT ![r] = NoLocals]
    /\ res' = [res EXCEPT ![r] = FreshResponse]
    /\ nextCalls' = [nextCalls EXCEPT ![r] = 0]
    /\ ret' = [ret EXCEPT ![r] = NoReturn]
    /\ calls' = [calls EXCEPT ![r] = NoCalls]
    /\ UNCHANGED <<cfg, adapter, session>>

\* ------------------------------------------------------------- specification
\* One step of the handling of request r of session s.
Handle(r, s) ==
    \/ GetClient(r, s)
    \/ GetClientGotId(r)
    \/ GetClientGotState(r)
    \/ Authorize(r, s)
    \/ OAuthAuthorizeStoring(r)
    \/ OAuthAuthorizeRedirect(r)
    \/ CompleteAuth(r, s)
    \/ OAuthExchangeStoreBlob(r)
    \/ OAuthExchangeStorePointer(r)
    \/ OAuthExchangeReject(r)
    \/ CompleteAuthOnResolve(r)
    \/ CompleteAuthOnReject(r)
    \/ RefreshAuth(r, s)
    \/ RefreshAuthGotClient(r)
    \/ ClientRefreshResolve(r)
    \/ ClientRefreshReject(r)
    \/ RefreshAuthOnResolve(r)
    \/ RefreshAuthOnReject(r)
    \/ Finish(r)

\* One step of a completion callback handled beside the main request.
Callback(r, s) ==
    \/ CompleteAuth(r, s)
    \/ OAuthExchangeStoreBlob(r)
    \/ OAuthExchangeStorePointer(r)
    \/ OAuthExchangeReject(r)
    \/ CompleteAuthOnResolve(r)
    \/ CompleteAuthOnReject(r)
    \/ Finish(r)

\* The main specification: request r1 runs any handler on any query of one
\* session, while a second tab (r2) completes authorization flows in the same
\* session and the application unsets keys.
Sessions == {"sA"}

Next ==
    \/ \E s \in Sessions : Handle("r1", s)
    \/ \E s \in Sessions : Callback("r2", s)
    \/ \E s \in Sessions : AppUnset(s)

Spec == Init /\ [][Next]_vars

\* ===================================================================== claims
\* The session object of request r.
SessionOf(r) == session[req[r].sess]

\* A query parameter or option is present when it carries a non-empty value.
Present(x) == x # Undefined /\ x # Str("")

\* The substring `part` occurs in a body kept as the sequence of its parts.
Contains(body, part) == \E i \in DOMAIN body : body[i] = part

\* Request r is invoked with handler h in this step.
Starts(r, h) == pc[r] = "idle" /\ req'[r].handler = h

\* getClient has returned to its caller for request r.
GetClientCompleted(r) ==
    \/ req[r].handler = "getClient" /\ pc[r] = "done"
    \/ req[r].handler = "refreshAuth" /\ pc[r] = "ra_await_client"

\* getClient is running (or has run) for request r.
GetClientCalled(r) ==
    /\ req[r].handler \in {"getClient", "refreshAuth"}
    /\ pc[r] \in {"gc_await_id", "gc_await_state", "ra_await_client", "done"}
    /\ req[r].bound

\* ------------------------------------------------------------------------ C1
\* C1: getClient resolves to null, and never rejects, whenever the pointer it
\* reads from the session is absent, and whenever the pointer is set but no
\* blob is stored under the key it names; the caller gets the same null in
\* both cases.  The pointer getClient acts on is the value of the session's
\* `smartId` key at the call, and the blob the value under the key the
\* pointer names when it is looked up.
C1_NullWithoutState ==
    /\ [](\A r \in AllReqs :
            /\ GetClientCalled(r) /\ req[r].handler = "getClient"
                  => ret[r].status \in {"pending", "resolved"}
            /\ (GetClientCompleted(r)
                /\ (local[r].id = Undefined \/ local[r].state = Undefined))
                  => /\ local[r].client = NoClient
                     /\ req[r].handler = "getClient" => ret[r] = Resolved(NoClient))
    /\ [][\A r \in AllReqs :
            /\ (pc[r] = "idle" /\ pc'[r] = "gc_await_id")
                  => local'[r].id = session[req'[r].sess][SMART_KEY]
            /\ (pc[r] = "gc_await_id" /\ pc'[r] = "gc_await_state")
                  => /\ local[r].id \in {Str(k) : k \in Keys}
                     /\ local'[r].state = SessionOf(r)[local[r].id.v]
            /\ (pc[r] = "gc_await_id" /\ pc'[r] # "gc_await_id"
                /\ pc'[r] # "gc_await_state")
                  => local[r].id = Undefined /\ local'[r].state = Undefined]_vars

\* A getClient call that found a dangling pointer has resolved with null.
C1_Witness ==
    /\ req["r1"].handler = "getClient" /\ pc["r1"] = "done"
    /\ local["r1"].id = Str("id1") /\ local["r1"].state = Undefined
    /\ SessionOf("r1")[SMART_KEY] = Str("id1") /\ SessionOf("r1")["id1"] = Undefined
    /\ ret["r1"] = Resolved(NoClient)

\* ------------------------------------------------------------------------ C2
\* C2: when the pointer names a key holding a blob, getClient returns a client
\* whose state is exactly the value stored under that key when it was looked
\* up: the same fields, nothing taken from another key.
C2_ClientFromStoredBlob ==
    /\ [](\A r \in AllReqs :
            (GetClientCompleted(r) /\ local[r].state \in Blobs)
                => /\ local[r].client = NewClient(local[r].state)
                   /\ req[r].handler = "getClient"
                         => ret[r] = Resolved(NewClient(local[r].state)))
    /\ [][\A r \in AllReqs :
            (pc[r] = "gc_await_id" /\ pc'[r] # pc[r] /\ Present(local[r].id)
             /\ SessionOf(r)[local[r].id.v] \in Blobs)
                => /\ pc'[r] = "gc_await_state"
                   /\ local'[r].state = SessionOf(r)[local[r].id.v]]_vars

\* getClient has returned a client built from a refreshed blob that the
\* pointer still names.
C2_Witness ==
    /\ req["r1"].handler = "getClient" /\ pc["r1"] = "done"
    /\ SessionOf("r1")[SMART_KEY] = Str("id2")
    /\ SessionOf("r1")["id2"] = Blob("id2", 1)
    /\ SessionOf("r1")["id1"] = Blob("id1", 0)
    /\ ret["r1"] = Resolved(NewClient(Blob("id2", 1)))

\* ------------------------------------------------------------------------ C3
\* The decision rule of authorize as the specification states it.
RedirectExpected(query) ==
    \/ Present(query["launch"]) /\ Present(query["iss"])
    \/ Present(query["fhirServiceUrl"])
    \/ Present(cfg.serverUrl)

C4_ErrorTakesPrecedence ==
    /\ [](\A r \in AllReqs :
            (req[r].handler = "completeAuth" /\ Present(req[r].query["error"]))
                => /\ pc[r] = "done"
                   /\ res[r].endCalls = 1 /\ res[r].redirectCalls = 0
                   /\ Contains(res[r].body, req[r].query["error"].v)
                   /\ Present(req[r].query["error_description"])
                         => Contains(res[r].body, req[r].query["error_description"].v)
                   /\ calls[r].exchange = 0
                   /\ nextCalls[r] = 0)
    /\ [][\A r \in AllReqs :
            (Starts(r, "completeAuth") /\ Present(req'[r].query["error"]))
                => session' = session]_vars

\* An error callback that also carries code and state has been answered.
C4_Witness ==
    /\ req["r1"].handler = "completeAuth" /\ pc["r1"] = "done"
    /\ Present(req["r1"].query["error"])
    /\ Present(req["r1"].query["error_description"])
    /\ Present(req["r1"].query["code"]) /\ Present(req["r1"].query["state"])
    /\ res["r1"].body = <<"access_denied", ":\n", "user cancelled">>

\* ------------------------------------------------------------------------ C5
\* The exchange of request r was attempted and has failed.
ExchangeFailed(r) ==
    /\ req[r].handler = "completeAuth" /\ calls[r].exchange = 1
    /\ local[r].error # NoError

\* The exchange of request r was attempted and has succeeded.
ExchangeSucceeded(r) ==
    /\ req[r].handler = "completeAuth" /\ calls[r].exchange = 1
    /\ local[r].error = NoError
    /\ pc[r] \in {"ca_exchange_ok", "done"}

\* C5: when the code exchange fails, the response gets the failure's HTTP
\* status (500 when it carries none) and a plain-text error body, and is
\* ended.
C5_FailureAnswered ==
    \A r \in AllReqs :
        (ExchangeFailed(r) /\ pc[r] = "done")
            => /\ res[r].statusCode = (IF local[r].error.httpCode # 0
                                       THEN local[r].error.httpCode ELSE 500)
               /\ res[r].contentType = "text/plain"
               /\ res[r].body # << >>
               /\ res[r].endCalls = 1

\* ------------------------------------------------------------------------ C6
\* C6: when the code exchange succeeds, the response is a redirect to the
\* configured redirectUri, issued only after the exchange has completed (the
\* pointer is written when its promise resolves), and next is not called.
C6_RedirectAfterExchange ==
    /\ [](\A r \in AllReqs :
            req[r].handler = "completeAuth"
                => /\ (ExchangeSucceeded(r) /\ pc[r] = "done")
                         => /\ res[r].redirectCalls = 1 /\ res[r].endCalls = 1
                            /\ res[r].location = cfg.redirectUri
                            /\ ret[r].status = "resolved"
                   /\ res[r].redirectCalls > 0
                         => ExchangeSucceeded(r) /\ pc[r] = "done"
                   /\ calls[r].exchange = 1 => nextCalls[r] = 0)
    /\ [][\A r \in AllReqs :
            /\ (req[r].handler = "completeAuth"
                /\ res'[r].redirectCalls > res[r].redirectCalls)
                  => pc[r] = "ca_exchange_ok"
            /\ (pc[r] # "ca_exchange_ok" /\ pc'[r] = "ca_exchange_ok")
                  => /\ local[r].id \in {Str(f) : f \in Ids}
                     /\ session'[req[r].sess][SMART_KEY] = local[r].id]_vars

\* A granted callback has been redirected to redirectUri while the session
\* points to the blob its exchange stored.
C6_Witness ==
    /\ req["r1"].handler = "completeAuth" /\ pc["r1"] = "done"
    /\ ExchangeSucceeded("r1")
    /\ res["r1"].location = cfg.redirectUri
    /\ SessionOf("r1")[SMART_KEY] = Str("id1")
    /\ SessionOf("r1")["id1"] = Blob("id1", 0)

\* ------------------------------------------------------------------------ C7
\* C7: the exchange is attempted only when code and state are both present;
\* a callback without error in which code or state is missing is passed to
\* next exactly once, with no exchange, no response and storage unchanged.
C7_ExchangeNeedsCodeAndState ==
    /\ [](\A r \in AllReqs :
            req[r].handler = "completeAuth"
                => /\ calls[r].exchange > 0
                         => /\ Present(req[r].query["code"])
                            /\ Present(req[r].query["state"])
                   /\ (/\ ~Present(req[r].query["error"])
                       /\ ~(Present(req[r].query["code"]) /\ Present(req[r].query["state"])))
                         => /\ nextCalls[r] = 1
                            /\ calls[r].exchange = 0
                            /\ res[r] = FreshResponse
                            /\ pc[r] = "done")
    /\ [][\A r \in AllReqs :
            (/\ Starts(r, "completeAuth")
             /\ ~Present(req'[r].query["error"])
             /\ ~(Present(req'[r].query["code"]) /\ Present(req'[r].query["state"])))
                => session' = session]_vars

\* A callback carrying code but no state has been passed to next.
C7_Witness ==
    /\ req["r1"].handler = "completeAuth" /\ pc["r1"] = "done"
    /\ Present(req["r1"].query["code"])
    /\ req["r1"].query["state"] = Undefined
    /\ req["r1"].query["error"] = Undefined
    /\ nextCalls["r1"] = 1

\* ------------------------------------------------------------------------ C8
\* The session holds no resolvable client state: no pointer, or a pointer to
\* a key holding nothing.
Unresolvable(sess) ==
    \/ sess[SMART_KEY] = Undefined
    \/ \E k \in Keys : sess[SMART_KEY] = Str(k) /\ sess[k] = Undefined

\* C8: when no client can be resolved from the session (pointer absent or
\* dangling), refreshAuth ends the response with the fixed lost-session
\* message, does not call next and attempts no refresh.
C8_LostSessionAnswered ==
    \A r \in AllReqs :
        (/\ req[r].handler = "refreshAuth" /\ pc[r] = "done"
         /\ local[r].client.isNull
         /\ Unresolvable(SessionOf(r)))
            => /\ res[r].endCalls = 1
               /\ res[r].body = <<LostSessionMessage>>
               /\ nextCalls[r] = 0
               /\ calls[r].refresh = 0

\* The same statement for the invocations of refreshAuth as a method of the
\* API object; it holds.
RefreshAuthAsMethodAnswersLostSession ==
    \A r \in AllReqs :
        (/\ req[r].handler = "refreshAuth" /\ pc[r] = "done"
         /\ req[r].bound
         /\ local[r].client.isNull)
            => /\ res[r].endCalls = 1
               /\ res[r].body = <<LostSessionMessage>>
               /\ nextCalls[r] = 0
               /\ calls[r].refresh = 0

\* ------------------------------------------------------------------------ C9
\* The refresh of request r has settled: fulfilled or rejected.
RefreshSucceeded(r) ==
    /\ req[r].handler = "refreshAuth" /\ calls[r].refresh = 1
    /\ local[r].error = NoError
    /\ pc[r] \in {"ra_refresh_ok", "done"}

RefreshFailed(r) ==
    /\ req[r].handler = "refreshAuth" /\ calls[r].refresh = 1
    /\ local[r].error # NoError

\* C9: when a client is resolvable, refreshAuth calls next if and only if the
\* client's refresh succeeds: on success next is called exactly once and no
\* response is written; on failure the response is ended with the error's
\* message and next is not called.
C9_NextIffRefreshSucceeds ==
    \A r \in AllReqs :
        req[r].handler = "refreshAuth"
            => /\ calls[r].refresh =
                     (IF local[r].client.isNull \/ pc[r] = "ra_await_client" THEN 0 ELSE 1)
               /\ nextCalls[r] = (IF RefreshSucceeded(r) /\ pc[r] = "done" THEN 1 ELSE 0)
               /\ RefreshSucceeded(r) => res[r] = FreshResponse
               /\ (RefreshFailed(r) /\ pc[r] = "done")
                     => /\ res[r].endCalls = 1
                        /\ res[r].body = <<local[r].error.message>>
               /\ RefreshFailed(r) => nextCalls[r] = 0

\* A refresh has succeeded, stored the refreshed blob, and the request has
\* been passed to next with nothing written to the response.
C9_Witness ==
    /\ req["r1"].handler = "refreshAuth" /\ pc["r1"] = "done"
    /\ RefreshSucceeded("r1")
    /\ SessionOf("r1")["id1"] = Blob("id1", 1)
    /\ nextCalls["r1"] = 1 /\ res["r1"] = FreshResponse

\* ----------------------------------------------------------------------- C10
\* C10: no rejected promise escapes a handler that has made its delegated
\* call: whatever the call's outcome, the handler's own handling completes
\* and leaves a concrete outcome (a finished response, or next).
C10_NoRejectionEscapes ==
    \A r \in AllReqs :
        (/\ req[r].handler \in {"authorize", "completeAuth", "refreshAuth"}
         /\ calls[r].authorize + calls[r].exchange + calls[r].refresh > 0)
            => /\ ret[r].status # "rejected"
               /\ pc[r] = "done" => res[r].endCalls + nextCalls[r] = 1

\* ----------------------------------------------------------------------- C11
\* No application call of getClient is running or holds its result.
NoReader == \A r \in AllReqs : req[r].handler # "getClient"

\* One step of an application call of getClient on request r.
Read(r, s) ==
    \/ GetClient(r, s)
    \/ req[r].handler = "getClient" /\ GetClientGotId(r)
    \/ req[r].handler = "getClient" /\ GetClientGotState(r)
    \/ req[r].handler = "getClient" /\ Finish(r)

\* One step of a request that may write the session: a completion callback
\* or a token refresh.
Write(r, s) ==
    \/ Callback(r, s)
    \/ RefreshAuth(r, s)
    \/ GetClientGotId(r)
    \/ GetClientGotState(r)
    \/ RefreshAuthGotClient(r)
    \/ ClientRefreshResolve(r)
    \/ ClientRefreshReject(r)
    \/ RefreshAuthOnResolve(r)
    \/ RefreshAuthOnReject(r)

\* Successive getClient calls: the application calls getClient on two
\* requests of one session, the calls overlapping or following one another,
\* and nothing writes the session from the start of the first call until the
\* results of both have been dropped.  Between such rounds completions,
\* refreshes and unsets change the session.
NextReaders ==
    \/ \E r \in AllReqs, s \in Sessions : Read(r, s)
    \/ NoReader /\ \E s \in Sessions : Write("r2", s)
    \/ NoReader /\ \E s \in Sessions : AppUnset(s)

SpecReaders == Init /\ [][NextReaders]_vars

\* C11: getClient is idempotent and read-only.  Two getClient calls on the
\* same session with no storage write between them resolve with the same
\* result (the same null, or clients of the same state), and no step of a
\* getClient call changes any key of any session.
C11_GetClientIdempotentReadOnly ==
    /\ [](\A r1, r2 \in AllReqs :
            (/\ req[r1].handler = "getClient" /\ pc[r1] = "done"
             /\ req[r2].handler = "getClient" /\ pc[r2] = "done"
             /\ req[r1].sess = req[r2].sess)
                => ret[r1] = ret[r2])
    /\ [][\A r \in AllReqs :
            (/\ req[r].handler = "getClient" \/ req'[r].handler = "getClient"
             /\ pc'[r] # pc[r])
                => session' = session]_vars

\* Two getClient calls on a session holding a refreshed blob have both
\* resolved, with clients of the same state, and the session still holds
\* the pointer and the blob.
C11_Witness ==
    /\ req["r1"].handler = "getClient" /\ pc["r1"] = "done"
    /\ req["r2"].handler = "getClient" /\ pc["r2"] = "done"
    /\ ret["r1"] = Resolved(NewClient(Blob("id1", 1)))
    /\ ret["r2"] = Resolved(NewClient(Blob("id1", 1)))
    /\ session["sA"][SMART_KEY] = Str("id1")
    /\ session["sA"]["id1"] = Blob("id1", 1)

\* ----------------------------------------------------------------------- C12
\* The positions at which a delegated collaborator runs: OAuthCore's
\* authorize, OAuthCore's code exchange, FhirClient's refresh.
DelegatedPositions == {"au_delegated", "ca_exchanging", "ca_storing_pointer",
                       "ra_refreshing"}

\* C12: the middleware itself never writes storage.  Every step the code of
\* getClient, authorize, completeAuth or refreshAuth takes itself leaves all
\* sessions unchanged, so pass-through, error-callback and lost-session
\* paths, which consist of such steps only, leave storage unchanged; while a
\* request is handled the pointer and the blobs change only in a step of
\* OAuthCore's authorize, OAuthCore's code exchange or FhirClient's refresh.
C12_MiddlewareNeverWrites ==
    [][\A r \in AllReqs :
        pc'[r] # pc[r]
            => /\ pc[r] \notin DelegatedPositions => session' = session
               /\ session' # session
                    => \/ req[r].handler = "authorize" /\ pc[r] = "au_delegated"
                       \/ req[r].handler = "completeAuth"
                          /\ pc[r] \in {"ca_exchanging", "ca_storing_pointer"}
                       \/ req[r].handler = "refreshAuth" /\ pc[r] = "ra_refreshing"]_vars

\* A lost-session answer of refreshAuth on a session whose pointer dangles
\* beside a stored blob: the pointer and the blob are still there.
C12_Witness ==
    /\ req["r1"].handler = "refreshAuth" /\ pc["r1"] = "done"
    /\ res["r1"].body = <<LostSessionMessage>>
    /\ session["sA"][SMART_KEY] = Str("id1")
    /\ session["sA"]["id1"] = Undefined
    /\ session["sA"]["id2"] = Blob("id2", 0)

\* ----------------------------------------------------------------------- C13
\* The default adapter used directly: completions fill the session, and
\* between them a user of the adapter calls unset(k), get(k), unset(k) on any
\* key, nothing else touching the session during the three calls.
NextStorage ==
    \/ adapter.step = 0 /\ \E s \in Sessions : Callback("r2", s)
    \/ \E s \in Sessions, k \in Keys \cup InheritedKeys : StorageUnsetCall(s, k)
    \/ StorageGetCall
    \/ StorageUnsetAgain
    \/ StorageCallsOver

SpecStorage == Init /\ [][NextStorage]_vars

\* What the claim says of the three calls on key k of a session that held
\* `before` when the first was made.
UnsetContract(k) ==
    /\ adapter.step >= 1
        => /\ adapter.first <=> (k \in Keys /\ adapter.before[k] # Undefined)
           /\ \A k2 \in Keys :
                session[adapter.sess][k2] = (IF k2 = k THEN Undefined ELSE adapter.before[k2])
    /\ adapter.step >= 2 => adapter.got = Undefined
    /\ adapter.step >= 3 => adapter.second = FALSE

\* C13: unset(key) of the default adapter resolves true if and only if a
\* value was stored under key just before the call, and the value has then
\* been removed; after it get(key) resolves to the absent value, a second
\* unset(key) resolves false, and the values under all other keys are as
\* they were.
C13_UnsetContract == UnsetContract(adapter.key)

\* The same statement for the keys that do not name a property the session
\* object inherits; it holds.
UnsetContractOfOwnKeys == adapter.key \in Keys => UnsetContract(adapter.key)

\* The three calls have been made on the key of a stored blob.
UnsetOfStoredBlob ==
    /\ adapter.step = 3 /\ adapter.key = "id1"
    /\ adapter.before["id1"] = Blob("id1", 0)
    /\ adapter.before[SMART_KEY] = Str("id1")
    /\ adapter.first /\ ~adapter.second

\* ----------------------------------------------------------------------- C14
\* C14: in every invocation of authorize, completeAuth and refreshAuth,
\* calling next and answering are mutually exclusive: next is called at most
\* once, the response is ended (by end or redirect) at most once, and an
\* invocation that has called next has written nothing to the response.
C14_NextExcludesResponse ==
    \A r \in AllReqs :
        req[r].handler \in {"authorize", "completeAuth", "refreshAuth"}
            => /\ nextCalls[r] <= 1
               /\ res[r].endCalls <= 1
               /\ res[r].redirectCalls <= res[r].endCalls
               /\ nextCalls[r] >= 1 => res[r] = FreshResponse

\* authorize has delegated and the response is a redirect to the
\* authorization endpoint; next was not called.
C14_Witness ==
    /\ req["r1"].handler = "authorize" /\ pc["r1"] = "done"
    /\ calls["r1"].authorize = 1
    /\ res["r1"].redirectCalls = 1 /\ res["r1"].endCalls = 1
    /\ res["r1"].location = AuthorizationEndpoint
    /\ nextCalls["r1"] = 0

\* ----------------------------------------------------------------------- C15
\* C15: every invocation of completeAuth and refreshAuth ends in next or in a
\* finished response.  All storage calls and delegated promises of an
\* invocation whose handling is over have settled, so at that point it has
\* called next or ended the response.
C15_InvocationEndsInNextOrResponse ==
    \A r \in AllReqs :
        (req[r].handler \in {"completeAuth", "refreshAuth"} /\ pc[r] = "done")
            => nextCalls[r] + res[r].endCalls >= 1

\* The same statement for completeAuth alone; the failing exchange violates
\* it.
CompleteAuthEndsInNextOrResponse ==
    \A r \in AllReqs :
        (req[r].handler = "completeAuth" /\ pc[r] = "done")
            => nextCalls[r] + res[r].endCalls >= 1

\* ----------------------------------------------------------------------- C16
\* Two tabs of one session complete authorization flows concurrently, their
\* exchanges interleaved in every way; once the second tab's completion is
\* over the application calls getClient on a new request of the first tab.
NextRace ==
    \/ \E s \in Sessions : Callback("r1", s)
    \/ NoReader /\ \E s \in Sessions : Callback("r2", s)
    \/ \E s \in Sessions :
        /\ pc["r2"] = "done" /\ ExchangeSucceeded("r2")
        /\ GetClient("r1", s)
    \/ GetClientGotId("r1")
    \/ GetClientGotState("r1")

SpecRace == Init /\ [][NextRace]_vars

\* Request r writes the pointer in this step.
WritesPointer(r) == pc[r] = "ca_storing_pointer" /\ pc'[r] = "ca_exchange_ok"

\* C16: two concurrent completeAuth calls for different flows of one session.
\* Each pointer write leaves the pointer at the writer's identifier and only
\* pointer writes change the pointer, so the final pointer is the identifier
\* written last; both flows' blobs are stored whole whatever the
\* interleaving, the one the pointer does not name stored but unreferenced;
\* and a getClient call made after both completions resolves with a client
\* built from the blob of the flow the pointer names, never with null and
\* never with anything of the other flow.
C16_LastPointerWriteWins ==
    /\ [](/\ (/\ ExchangeSucceeded("r1") /\ ExchangeSucceeded("r2")
              /\ local["r1"].id # local["r2"].id)
                => /\ SessionOf("r1")[SMART_KEY] \in {local["r1"].id, local["r2"].id}
                   /\ \A r \in AllReqs :
                        SessionOf("r1")[local[r].id.v] = Blob(local[r].id.v, 0)
          /\ (/\ req["r1"].handler = "getClient" /\ pc["r1"] = "done"
              /\ \A f \in Ids : SessionOf("r1")[f] # Undefined)
                => /\ SessionOf("r1")[SMART_KEY] \in {Str(f) : f \in Ids}
                   /\ ret["r1"] =
                        Resolved(NewClient(Blob(SessionOf("r1")[SMART_KEY].v, 0)))
                   /\ \A f \in Ids : SessionOf("r1")[f] = Blob(f, 0))
    /\ [][\A r \in AllReqs :
            /\ WritesPointer(r)
                => /\ session'[req[r].sess][SMART_KEY] = local[r].id
                   /\ \A f \in Ids : session'[req[r].sess][f] = session[req[r].sess][f]
            /\ (pc'[r] # pc[r] /\ ~WritesPointer(r))
                => \A s \in AllSessions : session'[s][SMART_KEY] = session[s][SMART_KEY]]_vars

\* The second tab's flow id2 has completed, the first tab's flow id1 wrote
\* the pointer last, and getClient has returned a client of the blob of id1;
\* the blob of id2 is stored whole and unreferenced.
C16_Witness ==
    /\ pc["r2"] = "done" /\ ExchangeSucceeded("r2") /\ local["r2"].id = Str("id2")
    /\ req["r1"].handler = "getClient" /\ pc["r1"] = "done"
    /\ session["sA"][SMART_KEY] = Str("id1")
    /\ session["sA"]["id1"] = Blob("id1", 0)
    /\ session["sA"]["id2"] = Blob("id2", 0)
    /\ ret["r1"] = Resolved(NewClient(Blob("id1", 0)))

\* ----------------------------------------------------------------------- C17
\* Sequences of authorize, completeAuth, refreshAuth and getClient requests
\* of one session, a second tab completing flows beside the first; nothing
\* else touches the session.
NextFlows ==
    \/ \E s \in Sessions : Handle("r1", s)
    \/ \E s \in Sessions : Callback("r2", s)

SpecFlows == Init /\ [][NextFlows]_vars

\* C17: the pointer is absent until the first successful completeAuth and
\* is then the identifier of the most recent successful completion.  Every
\* session starts without pointer; no step of any request other than the
\* pointer write of a succeeding code exchange changes a pointer (not an
\* abandoned redirect, an error callback, a failed exchange, a refresh or a
\* getClient), and that write leaves the session's one pointer at the
\* identifier of the completing flow; a getClient call that found no pointer
\* resolves with null.
C17_PointerFollowsCompletions ==
    /\ \A s \in AllSessions : session[s][SMART_KEY] = Undefined
    /\ [](/\ \A s \in AllSessions :
                session[s][SMART_KEY] \in {Undefined} \cup {Str(f) : f \in Ids}
          /\ \A r \in AllReqs :
                (/\ req[r].handler = "getClient" /\ pc[r] = "done"
                 /\ local[r].id = Undefined)
                    => ret[r] = Resolved(NoClient)
          /\ \A r \in AllReqs :
                (ExchangeFailed(r) \/ ~(req[r].handler = "completeAuth"))
                    => pc[r] # "ca_exchange_ok")
    /\ [][\A r \in AllReqs :
            /\ (pc[r] = "idle" /\ pc'[r] = "gc_await_id")
                => local'[r].id = session[req'[r].sess][SMART_KEY]
            /\ (pc'[r] # pc[r] /\ pc'[r] = "ca_exchange_ok")
                => /\ req[r].handler = "completeAuth"
                   /\ session'[req[r].sess][SMART_KEY] = local[r].id
                   /\ local[r].id \in {Str(f) : f \in Ids}
            /\ (pc'[r] # pc[r] /\ pc'[r] # "ca_exchange_ok")
                => \A s \in AllSessions :
                      session'[s][SMART_KEY] = session[s][SMART_KEY]]_vars

\* Flow id2 has just completed in a session that an earlier completion of
\* flow id1 had pointed at id1: the pointer is id2, and the blob of id1 is
\* still stored.
C17_Witness ==
    /\ req["r1"].handler = "completeAuth" /\ pc["r1"] = "done"
    /\ ExchangeSucceeded("r1") /\ local["r1"].id = Str("id2")
    /\ req["r2"].handler = "none"
    /\ session["sA"][SMART_KEY] = Str("id2")
    /\ session["sA"]["id1"] = Blob("id1", 1)
    /\ session["sA"]["id2"] = Blob("id2", 0)

\* ----------------------------------------------------------------------- C18
\* Completions of flows of any identifier, the string "smartId" included,
\* beside getClient calls of the application.
NextReserved ==
    \/ \E s \in Sessions : Read("r1", s)
    \/ \E s \in Sessions : Callback("r2", s)
    \/ OAuthExchangeStoreBlobReserved("r2")

SpecReserved == Init /\ [][NextReserved]_vars

ClientBuiltFromBlobOfIssuedId ==
    \A r \in AllReqs :
        (GetClientCompleted(r) /\ ~local[r].client.isNull)
            => /\ local[r].client.state \in Blobs
               /\ KeyOf(local[r].id) \in Ids

\* ----------------------------------------------------------------------- C19
\* The state a middleware instance keeps between requests is the
\* configuration object of line 51, and no step changes it.
ConfigurationNeverChanges == [][cfg' = cfg]_vars

\* ----------------------------------------------------------------------- C20
\* Requests of two sessions: getClient calls of the application on either
\* session beside completions and refreshes on either session.
NextSessions ==
    \/ \E s \in AllSessions : Read("r1", s)
    \/ \E s \in AllSessions : Write("r2", s)

SpecSessions == Init /\ [][NextSessions]_vars

\* C20: sessions are isolated under the default storage factory.  A step of
\* a request changes no key of any session but the request's own; getClient
\* reads the pointer and the state from the session of its own request, so
\* that on a session nothing was ever stored in it resolves with null
\* whatever the other sessions hold.
C20_SessionsIsolated ==
    /\ [](\A r \in AllReqs :
            (/\ req[r].handler = "getClient" /\ pc[r] = "done"
             /\ SessionOf(r) = EmptySession)
                => ret[r] = Resolved(NoClient))
    /\ [][\A r \in AllReqs :
            /\ pc'[r] # pc[r]
                => \A s \in AllSessions \ {req[r].sess, req'[r].sess} :
                      session'[s] = session[s]
            /\ (pc[r] = "idle" /\ pc'[r] # pc[r])
                => session'[req[r].sess] = session[req[r].sess]
            /\ (pc[r] = "idle" /\ pc'[r] = "gc_await_id")
                => local'[r].id = session[req'[r].sess][SMART_KEY]
            /\ (pc[r] = "gc_await_id" /\ pc'[r] = "gc_await_state")
                => local'[r].state = SessionOf(r)[local[r].id.v]]_vars

\* getClient on a request of session sB, in which nothing is stored, has
\* resolved with null while session sA holds a pointer and its blob.
C20_Witness ==
    /\ req["r1"].handler = "getClient" /\ req["r1"].sess = "sB" /\ pc["r1"] = "done"
    /\ ret["r1"] = Resolved(NoClient)
    /\ session["sB"] = EmptySession
    /\ session["sA"][SMART_KEY] = Str("id1")
    /\ session["sA"]["id1"] = Blob("id1", 1)

====
